---- MODULE Spec2Model ----
(***************************************************************************)
(* The auth pipeline of pkg/service/auth_pipeline.go: one Evaluate call    *)
(* running the identity, metadata and authorization phases, each phase a   *)
(* set of concurrent evaluator tasks feeding a buffered response channel   *)
(* that the pipeline's consumer loop drains.                               *)
(***************************************************************************)
EXTENDS Naturals, Sequences, FiniteSets

\* Largest length of each of the three config lists of the APIConfig.
MaxConfigs == 2

\* Largest number of configs of the APIConfig altogether.
MaxEvaluators == 3

Phases == {"identity", "metadata", "authorization"}


VARIABLES
  nConf,            \* API: number of configs of each phase's list
  parentCancelled,  \* *pipeline.ParentContext is done
  cancelled,        \* per phase: cancel() of the phase's derived context was called
  task,             \* per phase, per config: position of its goroutine
  chan,             \* per phase: the buffered respChannel
  closed,           \* per phase: respChannel was closed
  pc,               \* position of Evaluate
  lastError,        \* local of evaluateIdentityConfigs
  Identity,         \* pipeline.Identity
  Metadata,         \* pipeline.Metadata
  Authorization,    \* pipeline.Authorization
  result,           \* what Evaluate returned
  returned,         \* history: per phase, what the phase function returned
  log,              \* history: per phase, every response sent, in channel order
  cancelledAtStart, \* history: the parent scope was done when Evaluate was called
  cookieReq,        \* the request headers and key selector given to getFromCookieHeader
  cookieRet,        \* what getFromCookieHeader returned
  matchRules,       \* the Rules of a JSONPatternMatching evaluator
  matchRet          \* what its Call returned

\* The state of the credential locator and of the pattern matcher, which the
\* pipeline does not touch.
evaluatorVars == <<cookieReq, cookieRet, matchRules, matchRet>>

vars == <<nConf, parentCancelled, cancelled, task, chan, closed, pc, lastError,
          Identity, Metadata, Authorization, result, returned, log, cancelledAtStart,
          cookieReq, cookieRet, matchRules, matchRet>>

----------------------------------------------------------------------------
\* Values

\* A nil error.
NoError == [phase |-> "none", src |-> 0, kind |-> "nil"]

\* A phase function that has not returned yet (history only).
Pending == [phase |-> "none", src |-> 0, kind |-> "pending"]

\* The error evaluator c of phase p reports on its own.
EvaluatorError(p, c) == [phase |-> p, src |-> c, kind |-> "failure"]

\* The context error evaluator c of phase p reports when its scope is done.
ContextError(p, c) == [phase |-> p, src |-> c, kind |-> "cancelled"]

\* The objects an evaluator of phase p may return with a nil error.
Objects(p) ==
  IF p = "authorization" THEN {"false", "true"} ELSE {"null", "object"}

Truthy(obj) == obj \notin {"null", "false"}

Configs(p) == 1 .. nConf[p]

newEvaluationResponse(evaluator, obj, err) ==
  [Evaluator |-> evaluator, Object |-> obj, Error |-> err]

Success(evresp) == evresp.Error = NoError

EmptyMap == [c \in {} |-> "null"]

MapPut(m, k, v) == [x \in (DOMAIN m) \cup {k} |-> IF x = k THEN v ELSE m[x]]

\* common.CheckContext(ctx): the derived context of phase p is done when its
\* own cancel was called or when the parent is done.
CheckContext(p) == parentCancelled \/ cancelled[p]

\* The outcomes of config.Call(pipeline, ctx): an object with a nil error, the
\* evaluator's own error, or the context error when the scope is done.
CallOutcomes(p, c) ==
  {newEvaluationResponse(c, obj, NoError) : obj \in Objects(p)}
    \cup {newEvaluationResponse(c, "null", EvaluatorError(p, c))}
    \cup (IF CheckContext(p)
            THEN {newEvaluationResponse(c, "null", ContextError(p, c))}
            ELSE {})

----------------------------------------------------------------------------
\* Initial state: NewAuthPipeline, for any APIConfig within the bounds.

\* No call of the credential locator or of the pattern matcher.
NotCalled == [err |-> "not called"]

NoCookieRequest == [present |-> FALSE, header |-> <<>>, keyName |-> <<>>]

\* The pipeline before Evaluate is called.
PipelineStart ==
  /\ parentCancelled = FALSE
  /\ cancelled = [p \in Phases |-> FALSE]
  /\ task = [p \in Phases |-> [c \in 1 .. nConf[p] |-> "idle"]]
  /\ chan = [p \in Phases |-> <<>>]
  /\ closed = [p \in Phases |-> FALSE]
  /\ pc = "start"
  /\ lastError = NoError
  /\ Identity = EmptyMap
  /\ Metadata = EmptyMap
  /\ Authorization = EmptyMap
  /\ result = Pending
  /\ returned = [p \in Phases |-> Pending]
  /\ log = [p \in Phases |-> <<>>]
  /\ cancelledAtStart = FALSE

Init ==
  /\ nConf \in {f \in [Phases -> 0 .. MaxConfigs] :
                  f["identity"] + f["metadata"] + f["authorization"] <= MaxEvaluators}
  /\ PipelineStart
  /\ cookieReq = NoCookieRequest
  /\ cookieRet = NotCalled
  /\ matchRules = <<>>
  /\ matchRet = NotCalled

----------------------------------------------------------------------------
\* The three strategies: which of evaluateAuthConfig's callbacks is cancel.

\* evaluateOneAuthConfig handing cancel to both callbacks.
evaluateOneAuthConfigBoth == [successCallback |-> TRUE, failureCallback |-> TRUE]

evaluateOneAuthConfig == [successCallback |-> TRUE, failureCallback |-> FALSE]

\* evaluateAllAuthConfigs handing cancel to the success callback, as
\* evaluateOneAuthConfig does.
evaluateAllAuthConfigsOnSuccess == [successCallback |-> TRUE, failureCallback |-> FALSE]

evaluateAllAuthConfigs == [successCallback |-> FALSE, failureCallback |-> TRUE]

evaluateAnyAuthConfig == [successCallback |-> FALSE, failureCallback |-> FALSE]

\* The strategy each phase function hands its configs to.
Strategy(p) ==
  IF p = "identity" THEN evaluateOneAuthConfig
  ELSE IF p = "metadata" THEN evaluateAnyAuthConfig ELSE evaluateAllAuthConfigs

\* A channel one slot short of the number of configs.
CapacityOneLess(p) == nConf[p] - 1

\* make(chan EvaluationResponse, len(configs)): the buffer of phase p's channel.
Capacity(p) == nConf[p]

\* The phase function of p is running or has returned.
Started(p) == pc = p \/ returned[p] # Pending

\* The phase function of p makes its channel and evaluateAuthConfigs starts
\* one goroutine per config.
Spawn(p) == [task EXCEPT ![p] = [c \in Configs(p) |-> "spawned"]]

----------------------------------------------------------------------------
\* The environment cancels the parent scope (timeout, client gone).

CancelParent ==
  /\ pc # "done"
  /\ ~parentCancelled
  /\ parentCancelled' = TRUE
  /\ UNCHANGED <<evaluatorVars, nConf, cancelled, task, chan, closed, pc, lastError, Identity,
                 Metadata, Authorization, result, returned, log, cancelledAtStart>>

----------------------------------------------------------------------------
\* One evaluator goroutine: evaluateAuthConfig.

\* evaluateAuthConfig without the check of the context: Call is always invoked.
TaskCheckContextIgnored(p, c) ==
  /\ c \in Configs(p)
  /\ task[p][c] = "spawned"
  /\ task' = [task EXCEPT ![p][c] = "calling"]
  /\ UNCHANGED <<evaluatorVars, nConf, parentCancelled, cancelled, chan, closed, pc, lastError,
                 Identity, Metadata, Authorization, result, returned, log,
                 cancelledAtStart>>

\* The task checks its context: it skips when the context is done, otherwise
\* it invokes Call.
TaskCheckContext(p, c) ==
  /\ c \in Configs(p)
  /\ task[p][c] = "spawned"
  /\ task' = [task EXCEPT ![p][c] = IF CheckContext(p) THEN "skipped" ELSE "calling"]
  /\ UNCHANGED <<evaluatorVars, nConf, parentCancelled, cancelled, chan, closed, pc, lastError,
                 Identity, Metadata, Authorization, result, returned, log,
                 cancelledAtStart>>

\* evaluateAuthConfig writing the object of a success into the pipeline's
\* identity map itself, besides sending it.
TaskCallReturnsStores(p, c) ==
  /\ c \in Configs(p)
  /\ task[p][c] = "calling"
  /\ Len(chan[p]) < Capacity(p)
  /\ \E resp \in CallOutcomes(p, c) :
       /\ chan' = [chan EXCEPT ![p] = Append(@, resp)]
       /\ log' = [log EXCEPT ![p] = Append(@, resp)]
       /\ task' = [task EXCEPT ![p][c] = IF Success(resp) THEN "sentSuccess"
                                                            ELSE "sentFailure"]
       /\ Identity' = IF p = "identity" /\ Success(resp)
                        THEN MapPut(Identity, resp.Evaluator, resp.Object)
                        ELSE Identity
  /\ UNCHANGED <<evaluatorVars, nConf, parentCancelled, cancelled, closed, pc,
                 lastError, Metadata, Authorization, result, returned,
                 cancelledAtStart>>

\* Call returns and the task sends the response on the buffered channel.
TaskCallReturns(p, c) ==
  /\ c \in Configs(p)
  /\ task[p][c] = "calling"
  /\ Len(chan[p]) < Capacity(p)
  /\ \E resp \in CallOutcomes(p, c) :
       /\ chan' = [chan EXCEPT ![p] = Append(@, resp)]
       /\ log' = [log EXCEPT ![p] = Append(@, resp)]
       /\ task' = [task EXCEPT ![p][c] = IF Success(resp) THEN "sentSuccess"
                                                            ELSE "sentFailure"]
  /\ UNCHANGED <<evaluatorVars, nConf, parentCancelled, cancelled, closed, pc, lastError,
                 Identity, Metadata, Authorization, result, returned,
                 cancelledAtStart>>

\* evaluateAuthConfigs handing the tasks a cancel of the parent scope instead
\* of the cancel of the derived one.
TaskCallbackCancelsParent(p, c) ==
  /\ c \in Configs(p)
  /\ task[p][c] \in {"sentSuccess", "sentFailure"}
  /\ parentCancelled' =
       (parentCancelled \/ (IF task[p][c] = "sentSuccess"
                               THEN Strategy(p).successCallback
                               ELSE Strategy(p).failureCallback))
  /\ task' = [task EXCEPT ![p][c] = "done"]
  /\ UNCHANGED <<evaluatorVars, nConf, cancelled, chan, closed, pc, lastError, Identity,
                 Metadata, Authorization, result, returned, log, cancelledAtStart>>

\* After the send the task runs the callback of its branch, if it has one, and
\* the goroutine ends (waitGroup.Done).
TaskCallback(p, c) ==
  /\ c \in Configs(p)
  /\ task[p][c] \in {"sentSuccess", "sentFailure"}
  /\ cancelled' = [cancelled EXCEPT ![p] =
                     @ \/ (IF task[p][c] = "sentSuccess"
                             THEN Strategy(p).successCallback
                             ELSE Strategy(p).failureCallback)]
  /\ task' = [task EXCEPT ![p][c] = "done"]
  /\ UNCHANGED <<evaluatorVars, nConf, parentCancelled, chan, closed, pc, lastError, Identity,
                 Metadata, Authorization, result, returned, log, cancelledAtStart>>

\* evaluateAuthConfigs without waitGroup.Wait(): the channel is closed while
\* goroutines still run.
CloseChannelNoWait(p) ==
  /\ Started(p)
  /\ ~closed[p]
  /\ closed' = [closed EXCEPT ![p] = TRUE]
  /\ UNCHANGED <<evaluatorVars, nConf, parentCancelled, cancelled, task, chan, pc, lastError,
                 Identity, Metadata, Authorization, result, returned, log,
                 cancelledAtStart>>

\* waitGroup.Wait() returns once every goroutine ended, and the deferred
\* close(respChannel) runs.
CloseChannel(p) ==
  /\ Started(p)
  /\ ~closed[p]
  /\ \A c \in Configs(p) : task[p][c] \in {"skipped", "done"}
  /\ closed' = [closed EXCEPT ![p] = TRUE]
  /\ UNCHANGED <<evaluatorVars, nConf, parentCancelled, cancelled, task, chan, pc, lastError,
                 Identity, Metadata, Authorization, result, returned, log,
                 cancelledAtStart>>

----------------------------------------------------------------------------
\* The pipeline goroutine: Evaluate and the consumer loops of the phases.

\* Evaluate is called and enters evaluateIdentityConfigs.
Evaluate ==
  /\ pc = "start"
  /\ pc' = "identity"
  /\ task' = Spawn("identity")
  /\ cancelledAtStart' = parentCancelled
  /\ UNCHANGED <<evaluatorVars, nConf, parentCancelled, cancelled, chan, closed, lastError,
                 Identity, Metadata, Authorization, result, returned, log>>

\* evaluateIdentityConfigs with a loop that stores a success and keeps reading.
IdentityReceiveKeepsReading ==
  /\ pc = "identity"
  /\ chan["identity"] # <<>>
  /\ LET resp == Head(chan["identity"]) IN
       /\ chan' = [chan EXCEPT !["identity"] = Tail(@)]
       /\ IF Success(resp)
            THEN /\ Identity' = MapPut(Identity, resp.Evaluator, resp.Object)
                 /\ UNCHANGED lastError
            ELSE /\ lastError' = resp.Error
                 /\ UNCHANGED Identity
  /\ UNCHANGED <<evaluatorVars, nConf, parentCancelled, cancelled, closed, Metadata, task, pc,
                 returned, Authorization, result, log, cancelledAtStart>>

\* evaluateIdentityConfigs with a loop that keeps the first error it saw.
IdentityReceiveFirstError ==
  /\ pc = "identity"
  /\ chan["identity"] # <<>>
  /\ LET resp == Head(chan["identity"]) IN
       /\ chan' = [chan EXCEPT !["identity"] = Tail(@)]
       /\ IF Success(resp)
            THEN /\ Identity' = MapPut(Identity, resp.Evaluator, resp.Object)
                 /\ returned' = [returned EXCEPT !["identity"] = NoError]
                 /\ pc' = "metadata"
                 /\ task' = Spawn("metadata")
                 /\ UNCHANGED lastError
            ELSE /\ lastError' = IF lastError = NoError THEN resp.Error ELSE lastError
                 /\ UNCHANGED <<Identity, returned, pc, task>>
  /\ UNCHANGED <<evaluatorVars, nConf, parentCancelled, cancelled, closed, Metadata,
                 Authorization, result, log, cancelledAtStart>>

\* evaluateIdentityConfigs receives one response: a success is stored and
\* the phase returns nil, so Evaluate goes on to evaluateMetadataConfigs; a
\* failure is remembered in lastError.
IdentityReceive ==
  /\ pc = "identity"
  /\ chan["identity"] # <<>>
  /\ LET resp == Head(chan["identity"]) IN
       /\ chan' = [chan EXCEPT !["identity"] = Tail(@)]
       /\ IF Success(resp)
            THEN /\ Identity' = MapPut(Identity, resp.Evaluator, resp.Object)
                 /\ returned' = [returned EXCEPT !["identity"] = NoError]
                 /\ pc' = "metadata"
                 /\ task' = Spawn("metadata")
                 /\ UNCHANGED lastError
            ELSE /\ lastError' = resp.Error
                 /\ UNCHANGED <<Identity, returned, pc, task>>
  /\ UNCHANGED <<evaluatorVars, nConf, parentCancelled, cancelled, closed, Metadata,
                 Authorization, result, log, cancelledAtStart>>

\* The identity channel is closed and drained: the phase returns lastError;
\* Evaluate returns it when it is not nil and goes on to the metadata otherwise.
IdentityDrained ==
  /\ pc = "identity"
  /\ chan["identity"] = <<>>
  /\ closed["identity"]
  /\ returned' = [returned EXCEPT !["identity"] = lastError]
  /\ IF lastError # NoError
       THEN /\ pc' = "done"
            /\ result' = lastError
            /\ UNCHANGED task
       ELSE /\ pc' = "metadata"
            /\ task' = Spawn("metadata")
            /\ UNCHANGED result
  /\ UNCHANGED <<evaluatorVars, nConf, parentCancelled, cancelled, chan, closed, lastError,
                 Identity, Metadata, Authorization, log, cancelledAtStart>>

\* evaluateMetadataConfigs with a loop that returns the error of a failure to
\* Evaluate, which returns it.
MetadataReceiveFails ==
  /\ pc = "metadata"
  /\ chan["metadata"] # <<>>
  /\ LET resp == Head(chan["metadata"]) IN
       /\ chan' = [chan EXCEPT !["metadata"] = Tail(@)]
       /\ IF Success(resp)
            THEN /\ Metadata' = MapPut(Metadata, resp.Evaluator, resp.Object)
                 /\ UNCHANGED <<returned, pc, result>>
            ELSE /\ returned' = [returned EXCEPT !["metadata"] = resp.Error]
                 /\ pc' = "done"
                 /\ result' = resp.Error
                 /\ UNCHANGED Metadata
  /\ UNCHANGED <<evaluatorVars, nConf, parentCancelled, cancelled, task, closed, lastError,
                 Identity, Authorization, log, cancelledAtStart>>

\* evaluateMetadataConfigs receives one response: a success is stored, a
\* failure is only logged.
MetadataReceive ==
  /\ pc = "metadata"
  /\ chan["metadata"] # <<>>
  /\ LET resp == Head(chan["metadata"]) IN
       /\ chan' = [chan EXCEPT !["metadata"] = Tail(@)]
       /\ Metadata' = IF Success(resp)
                        THEN MapPut(Metadata, resp.Evaluator, resp.Object)
                        ELSE Metadata
  /\ UNCHANGED <<evaluatorVars, nConf, parentCancelled, cancelled, task, closed, pc, lastError,
                 Identity, Authorization, result, returned, log, cancelledAtStart>>

\* The metadata channel is closed and drained: the phase returns and Evaluate
\* enters evaluateAuthorizationConfigs.
MetadataDrained ==
  /\ pc = "metadata"
  /\ chan["metadata"] = <<>>
  /\ closed["metadata"]
  /\ returned' = [returned EXCEPT !["metadata"] = NoError]
  /\ pc' = "authorization"
  /\ task' = Spawn("authorization")
  /\ UNCHANGED <<evaluatorVars, nConf, parentCancelled, cancelled, chan, closed, lastError,
                 Identity, Metadata, Authorization, result, log, cancelledAtStart>>

\* evaluateAuthorizationConfigs with the loop of evaluateMetadataConfigs: a
\* failure is only logged.
AuthorizationReceiveLogsFailure ==
  /\ pc = "authorization"
  /\ chan["authorization"] # <<>>
  /\ LET resp == Head(chan["authorization"]) IN
       /\ chan' = [chan EXCEPT !["authorization"] = Tail(@)]
       /\ Authorization' = IF Success(resp)
                             THEN MapPut(Authorization, resp.Evaluator, resp.Object)
                             ELSE Authorization
  /\ UNCHANGED <<evaluatorVars, nConf, parentCancelled, cancelled, task, closed, lastError, pc,
                 Identity, Metadata, result, returned, log, cancelledAtStart>>

\* evaluateAuthorizationConfigs receives one response: a success is stored; on
\* a failure the phase returns the error and so does Evaluate.
AuthorizationReceive ==
  /\ pc = "authorization"
  /\ chan["authorization"] # <<>>
  /\ LET resp == Head(chan["authorization"]) IN
       /\ chan' = [chan EXCEPT !["authorization"] = Tail(@)]
       /\ IF Success(resp)
            THEN /\ Authorization' = MapPut(Authorization, resp.Evaluator, resp.Object)
                 /\ UNCHANGED <<returned, pc, result>>
            ELSE /\ returned' = [returned EXCEPT !["authorization"] = resp.Error]
                 /\ pc' = "done"
                 /\ result' = resp.Error
                 /\ UNCHANGED Authorization
  /\ UNCHANGED <<evaluatorVars, nConf, parentCancelled, cancelled, task, closed, lastError,
                 Identity, Metadata, log, cancelledAtStart>>

\* evaluateAuthorizationConfigs returning an error when it stored nothing.
AuthorizationDrainedNeedsOne ==
  /\ pc = "authorization"
  /\ chan["authorization"] = <<>>
  /\ closed["authorization"]
  /\ returned' = [returned EXCEPT !["authorization"] =
                    IF Authorization = EmptyMap
                      THEN EvaluatorError("authorization", 0) ELSE NoError]
  /\ pc' = "done"
  /\ result' = IF Authorization = EmptyMap
                 THEN EvaluatorError("authorization", 0) ELSE NoError
  /\ UNCHANGED <<evaluatorVars, nConf, parentCancelled, cancelled, task, chan, closed, lastError,
                 Identity, Metadata, Authorization, log, cancelledAtStart>>

\* The authorization channel is closed and drained: the phase returns nil and
\* so does Evaluate.
AuthorizationDrained ==
  /\ pc = "authorization"
  /\ chan["authorization"] = <<>>
  /\ closed["authorization"]
  /\ returned' = [returned EXCEPT !["authorization"] = NoError]
  /\ pc' = "done"
  /\ result' = NoError
  /\ UNCHANGED <<evaluatorVars, nConf, parentCancelled, cancelled, task, chan, closed, lastError,
                 Identity, Metadata, Authorization, log, cancelledAtStart>>

----------------------------------------------------------------------------

Next ==
  \/ CancelParent
  \/ \E p \in Phases : \E c \in Configs(p) : TaskCheckContext(p, c)
  \/ \E p \in Phases : \E c \in Configs(p) : TaskCallReturns(p, c)
  \/ \E p \in Phases : \E c \in Configs(p) : TaskCallback(p, c)
  \/ \E p \in Phases : CloseChannel(p)
  \/ Evaluate
  \/ IdentityReceive
  \/ IdentityDrained
  \/ MetadataReceive
  \/ MetadataDrained
  \/ AuthorizationReceive
  \/ AuthorizationDrained

Spec == Init /\ [][Next]_vars

\* The scheduler runs every goroutine that can take a step, every Call
\* returns, and the parent scope may or may not be cancelled.
Fairness ==
  /\ \A p \in Phases : \A c \in 1 .. MaxConfigs :
       /\ WF_vars(TaskCheckContext(p, c))
       /\ WF_vars(TaskCallReturns(p, c))
       /\ WF_vars(TaskCallback(p, c))
  /\ \A p \in Phases : WF_vars(CloseChannel(p))
  /\ WF_vars(Evaluate)
  /\ WF_vars(IdentityReceive) /\ WF_vars(IdentityDrained)
  /\ WF_vars(MetadataReceive) /\ WF_vars(MetadataDrained)
  /\ WF_vars(AuthorizationReceive) /\ WF_vars(AuthorizationDrained)

FairSpec == Spec /\ Fairness

\* Only this much of the scheduling: a goroutine that has sent its response
\* goes on to its callback.
CallbackFairness ==
  \A p \in Phases : \A c \in 1 .. MaxConfigs : WF_vars(TaskCallback(p, c))

CallbackFairSpec == Spec /\ CallbackFairness

----------------------------------------------------------------------------
\* What the pipeline shows to the evaluators.

\* GetResolvedIdentity: the pairs the iteration over the identity map may
\* return, an entry with a non-nil object, or nil when there is none.
GetResolvedIdentity ==
  IF \E c \in DOMAIN Identity : Identity[c] # "null"
    THEN {<<c, Identity[c]>> : c \in {k \in DOMAIN Identity : Identity[k] # "null"}}
    ELSE {<<0, "null">>}

\* GetResolvedMetadata: the entries of the metadata map with a non-nil object.
GetResolvedMetadata ==
  [c \in {k \in DOMAIN Metadata : Metadata[k] # "null"} |-> Metadata[c]]

\* GetDataForAuthorization: the "auth" part of the authorization data, for each
\* identity the iteration may return; the metadata are keyed by the names of
\* their configs, which stand for the configs here.
GetDataForAuthorization ==
  {[identity |-> id[2], metadata |-> GetResolvedMetadata] : id \in GetResolvedIdentity}

----------------------------------------------------------------------------
\* The credential locator: getFromCookieHeader. Strings are sequences of
\* characters.

\* Longest cookie header.
MaxHeaderLen == 5

\* The characters of the headers: two letters, the separators and the space.
Chars == {"k", "v", "=", ";", " "}

\* The key selector of the locator.
KeySelectors == {<<"k">>}

RECURSIVE Split(_, _)
\* strings.Split(s, sep) for a separator of one character.
Split(s, sep) ==
  IF \E i \in 1 .. Len(s) : s[i] = sep
    THEN LET i == CHOOSE j \in 1 .. Len(s) :
                    s[j] = sep /\ \A h \in 1 .. (j - 1) : s[h] # sep
         IN <<SubSeq(s, 1, i - 1)>> \o Split(SubSeq(s, i + 1, Len(s)), sep)
    ELSE <<s>>

RECURSIVE TrimSpace(_)
\* strings.TrimSpace(s).
TrimSpace(s) ==
  IF s = <<>> THEN s
  ELSE IF Head(s) = " " THEN TrimSpace(Tail(s))
  ELSE IF s[Len(s)] = " " THEN TrimSpace(SubSeq(s, 1, Len(s) - 1))
  ELSE s

\* The results of the locator.
Credential(cred) == [err |-> "nil", cred |-> cred]

notFoundErr == [err |-> "credential not found"]

\* keyAndValue[1] of a slice of one element: index out of range.
IndexPanic == [err |-> "panic"]

RECURSIVE CookieLoop(_, _)
\* The loop of getFromCookieHeader over the parts of the header.
CookieLoop(parts, keyName) ==
  IF parts = <<>> THEN notFoundErr
  ELSE LET keyAndValue == Split(TrimSpace(Head(parts)), "=") IN
         IF keyAndValue[1] = keyName
           THEN IF Len(keyAndValue) < 2 THEN IndexPanic
                ELSE Credential(keyAndValue[2])
           ELSE CookieLoop(Tail(parts), keyName)

getFromCookieHeader(req) ==
  IF ~req.present THEN notFoundErr
  ELSE CookieLoop(Split(req.header, ";"), req.keyName)

RECURSIVE Strings(_)
\* The strings of at most n characters.
Strings(n) ==
  IF n = 0 THEN {<<>>}
  ELSE LET shorter == Strings(n - 1) IN
         shorter \cup {Append(t, ch) : t \in shorter, ch \in Chars}

\* The requests: no cookie header, or any header within the bound.
CookieRequests ==
  {[present |-> FALSE, header |-> <<>>, keyName |-> k] : k \in KeySelectors}
    \cup {[present |-> TRUE, header |-> h, keyName |-> k] :
            h \in Strings(MaxHeaderLen), k \in KeySelectors}

CookieInit ==
  /\ nConf = [p \in Phases |-> 0]
  /\ PipelineStart
  /\ cookieReq \in CookieRequests
  /\ cookieRet = NotCalled
  /\ matchRules = <<>>
  /\ matchRet = NotCalled

\* GetCredentialsFromReq with In = "cookie".
GetCredentialsFromReq ==
  /\ cookieRet = NotCalled
  /\ cookieRet' = getFromCookieHeader(cookieReq)
  /\ UNCHANGED <<nConf, parentCancelled, cancelled, task, chan, closed, pc,
                 lastError, Identity, Metadata, Authorization, result, returned,
                 log, cancelledAtStart, cookieReq, matchRules, matchRet>>

CookieSpec == CookieInit /\ [][GetCredentialsFromReq]_vars

----------------------------------------------------------------------------
\* The pattern-matching authorization evaluator, over the authorization JSON
\* of its test.

\* Longest list of rules.
MaxRules == 2

\* The selectors of the rules: a header, a list of the metadata, and a path
\* the authorization JSON does not have.
Selectors ==
  {"context.request.http.headers.x-secret-header", "auth.metadata.letters",
   "auth.metadata.absent"}

Operators == {"eq", "neq", "incl", "excl", "matches"}

RuleValues == {"no-one-knows", "a", "(.+)-knows", "$$^[not-a-regex"}

JSONPatternMatchingRules ==
  {[Selector |-> sel, Operator |-> op, Value |-> v] :
     sel \in Selectors, op \in Operators, v \in RuleValues}

\* The text of the list of letters in the authorization JSON.
LettersText == "[\"a\",\"b\",\"c\"]"

\* The node a selector resolves to in the authorization JSON: a scalar, a
\* sequence, or the missing sentinel.
Resolve(selector) ==
  IF selector = "context.request.http.headers.x-secret-header"
    THEN [kind |-> "scalar", text |-> "no-one-knows", items |-> {}]
  ELSE IF selector = "auth.metadata.letters"
    THEN [kind |-> "sequence", text |-> LettersText, items |-> {"a", "b", "c"}]
  ELSE [kind |-> "missing", text |-> "", items |-> {}]

\* The values that compile as regular expressions, and what each matches
\* among the texts of the nodes.
RegexCompiles(value) == value # "$$^[not-a-regex"

RegexMatches(value, text) ==
  <<value, text>> \in {<<"no-one-knows", "no-one-knows">>,
                       <<"(.+)-knows", "no-one-knows">>,
                       <<"a", LettersText>>}

\* The results of Call.
Authorized == [authorized |-> TRUE, err |-> "nil"]

Unauthorized == [authorized |-> FALSE, err |-> "Unauthorized"]

RegexInvalid == [authorized |-> FALSE, err |-> "error parsing regexp"]

\* One rule against the authorization JSON.
EvaluateRule(rule) ==
  LET actual == Resolve(rule.Selector) IN
    IF rule.Operator = "eq"
      THEN IF actual.text = rule.Value THEN Authorized ELSE Unauthorized
    ELSE IF rule.Operator = "neq"
      THEN IF actual.text # rule.Value THEN Authorized ELSE Unauthorized
    ELSE IF rule.Operator = "incl"
      THEN IF actual.kind = "sequence" /\ rule.Value \in actual.items
             THEN Authorized ELSE Unauthorized
    ELSE IF rule.Operator = "excl"
      THEN IF actual.kind = "sequence" /\ rule.Value \notin actual.items
             THEN Authorized ELSE Unauthorized
    ELSE IF ~RegexCompiles(rule.Value) THEN RegexInvalid
    ELSE IF RegexMatches(rule.Value, actual.text) THEN Authorized ELSE Unauthorized

RECURSIVE JSONPatternMatchingLastRule(_)
\* Call with a loop that keeps the outcome of the last rule.
JSONPatternMatchingLastRule(rules) ==
  IF rules = <<>> THEN Authorized
  ELSE IF Len(rules) = 1 THEN EvaluateRule(Head(rules))
  ELSE JSONPatternMatchingLastRule(Tail(rules))

RECURSIVE JSONPatternMatchingCall(_)
\* Call: the rules in order, returning at the first one that does not hold or
\* does not compile.
JSONPatternMatchingCall(rules) ==
  IF rules = <<>> THEN Authorized
  ELSE IF EvaluateRule(Head(rules)) # Authorized THEN EvaluateRule(Head(rules))
  ELSE JSONPatternMatchingCall(Tail(rules))

RECURSIVE RuleLists(_)
\* The lists of at most n rules.
RuleLists(n) ==
  IF n = 0 THEN {<<>>}
  ELSE LET shorter == RuleLists(n - 1) IN
         shorter \cup {Append(l, r) : l \in shorter, r \in JSONPatternMatchingRules}

MatcherInit ==
  /\ nConf = [p \in Phases |-> 0]
  /\ PipelineStart
  /\ cookieReq = NoCookieRequest
  /\ cookieRet = NotCalled
  /\ matchRules \in RuleLists(MaxRules)
  /\ matchRet = NotCalled

\* The evaluator is called.
Call ==
  /\ matchRet = NotCalled
  /\ matchRet' = JSONPatternMatchingCall(matchRules)
  /\ UNCHANGED <<nConf, parentCancelled, cancelled, task, chan, closed, pc,
                 lastError, Identity, Metadata, Authorization, result, returned,
                 log, cancelledAtStart, cookieReq, cookieRet, matchRules>>

MatcherSpec == MatcherInit /\ [][Call]_vars

----------------------------------------------------------------------------
\* Properties

\* Evaluate returned nil.
Succeeded == pc = "done" /\ result = NoError

\* The responses of phase p's channel history that are successes / failures.
Successes(p) == {i \in 1 .. Len(log[p]) : Success(log[p][i])}

Failures(p) == {i \in 1 .. Len(log[p]) : ~Success(log[p][i])}

First(S) == CHOOSE i \in S : \A j \in S : i <= j

\* The map holding the objects of the successes of phase p's channel history.
SuccessMap(p) ==
  [c \in {log[p][i].Evaluator : i \in Successes(p)} |->
     log[p][CHOOSE i \in Successes(p) : log[p][i].Evaluator = c].Object]

\* Call of config c of phase p was invoked.
Invoked(p, c) == task[p][c] \in {"calling", "sentSuccess", "sentFailure", "done"}

\* C1: whenever Evaluate returns nil, the identity map holds exactly one entry
\* whose object is non-null.
C1_IdentityExclusivity ==
  Succeeded => Cardinality({c \in DOMAIN Identity : Identity[c] # "null"}) = 1

\* C2: with zero identity configs the identity phase returns a non-nil error,
\* Evaluate returns an error, and no metadata or authorization evaluator is
\* invoked.
C2_EmptyIdentityFails ==
  nConf["identity"] = 0 =>
    /\ returned["identity"] # NoError
    /\ pc = "done" => result # NoError
    /\ \A p \in {"metadata", "authorization"} : \A c \in Configs(p) : ~Invoked(p, c)

\* C3: whenever Evaluate returns nil, the Call of every configured
\* authorization evaluator was invoked and returned without error, and the
\* authorization map has one entry per authorization config. Stated for the
\* requests whose identity a verifier resolved, where the empty identity list
\* of C2 plays no part.
C3_AllOfAuthorization ==
  (Succeeded /\ Successes("identity") # {}) =>
    /\ \A c \in Configs("authorization") :
         \E i \in Successes("authorization") : log["authorization"][i].Evaluator = c
    /\ DOMAIN Authorization = Configs("authorization")

\* C4: whenever Evaluate returns nil, every entry of the authorization map is
\* non-null and truthy. Stated for the requests whose identity a verifier
\* resolved, where the empty identity list of C2 plays no part.
C4_AuthorizationTotality ==
  (Succeeded /\ Successes("identity") # {}) => \A c \in DOMAIN Authorization : Truthy(Authorization[c])

\* C5: when the parent scope was already cancelled when Evaluate was called,
\* Evaluate returns a non-nil error carrying the scope error. Stated for the
\* pipelines that have an identity config, where the empty identity list of C2
\* plays no part.
C5_ParentCancellationPropagated ==
  (cancelledAtStart /\ nConf["identity"] > 0 /\ pc = "done") => (result # NoError /\ result.kind = "cancelled")

\* C6: once the identity phase has returned, if some identity Call returned
\* without error then the phase returned nil and the identity map holds exactly
\* the (config, object) pair of the first success in channel order.
C6_FirstIdentitySuccessWins ==
  (returned["identity"] # Pending /\ Successes("identity") # {}) =>
    LET first == log["identity"][First(Successes("identity"))] IN
      /\ returned["identity"] = NoError
      /\ Identity = MapPut(EmptyMap, first.Evaluator, first.Object)

\* C6 happens: a failure, then a success, then the phase returned; and a
\* success followed by the cancellation error of its sibling.
C6_Witness ==
  /\ returned["identity"] = NoError
  /\ Len(log["identity"]) = MaxConfigs
  /\ Success(log["identity"][1])
  /\ log["identity"][MaxConfigs].Error.kind = "cancelled"
  /\ DOMAIN Identity = {log["identity"][1].Evaluator}

\* C7: once the identity phase has returned, if responses were sent and all of
\* them are failures then the phase returned the error of the last response,
\* Evaluate returned that error, the identity map is empty and no metadata or
\* authorization evaluator was invoked.
C7_IdentityFailureReturnsLastError ==
  (returned["identity"] # Pending /\ log["identity"] # <<>> /\ Successes("identity") = {}) =>
    LET last == log["identity"][Len(log["identity"])] IN
      /\ returned["identity"] = last.Error
      /\ pc = "done"
      /\ result = last.Error
      /\ Identity = EmptyMap
      /\ \A p \in {"metadata", "authorization"} : \A c \in Configs(p) : task[p][c] = "idle"

\* C7 happens: every identity evaluator failed, with different errors.
C7_Witness ==
  /\ nConf["identity"] = MaxConfigs
  /\ Len(log["identity"]) = MaxConfigs
  /\ Successes("identity") = {}
  /\ log["identity"][1].Error # log["identity"][MaxConfigs].Error
  /\ result = log["identity"][MaxConfigs].Error

\* Once Evaluate has returned after the authorization phase ran, a failure
\* among the authorization responses makes the result the first of them.
AuthorizationReturnsFirstError ==
  (pc = "done" /\ returned["authorization"] # Pending /\ Failures("authorization") # {}) =>
    /\ result # NoError
    /\ result = log["authorization"][First(Failures("authorization"))].Error

\* C8: if an authorization Call returns an error, Evaluate returns the error of
\* the first failure response in channel order, and the scope of the
\* authorization phase is eventually cancelled.
C8_AuthorizationFailureReturnsFirstError ==
  /\ [] AuthorizationReturnsFirstError
  /\ (Failures("authorization") # {}) ~> cancelled["authorization"]

\* C8 happens: two authorization failures, Evaluate returned the first and the
\* scope was cancelled.
C8_Witness ==
  /\ pc = "done"
  /\ Len(log["authorization"]) = MaxConfigs
  /\ Successes("authorization") = {}
  /\ log["authorization"][1].Error # log["authorization"][MaxConfigs].Error
  /\ result = log["authorization"][1].Error
  /\ cancelled["authorization"]

\* C9: no error of Evaluate comes from a metadata evaluator: after a
\* successful identity phase Evaluate returns what the authorization phase
\* returns; and once the metadata phase has returned the metadata map holds
\* exactly the configs whose Call returned without error, with their objects.
C9_MetadataNeverFails ==
  /\ result.phase # "metadata"
  /\ (pc = "done" /\ returned["identity"] = NoError) =>
       (returned["metadata"] = NoError /\ returned["authorization"] # Pending
          /\ result = returned["authorization"])
  /\ returned["metadata"] # Pending => Metadata = SuccessMap("metadata")

\* C9 happens: one metadata evaluator failed, another succeeded, and Evaluate
\* returned nil.
C9_Witness ==
  /\ Succeeded
  /\ Successes("metadata") # {}
  /\ Failures("metadata") # {}
  /\ Cardinality(DOMAIN Metadata) = 1

\* C10: once the identity phase has succeeded, a pipeline with no metadata and
\* no authorization config returns nil from Evaluate and leaves the metadata
\* and authorization maps empty.
C10_EmptyMetadataAndAuthorization ==
  (nConf["metadata"] = 0 /\ nConf["authorization"] = 0
     /\ returned["identity"] = NoError /\ pc = "done") =>
    (result = NoError /\ Metadata = EmptyMap /\ Authorization = EmptyMap)

\* C10 happens: an identity evaluator succeeded and there is nothing else.
C10_Witness ==
  /\ nConf["metadata"] = 0 /\ nConf["authorization"] = 0
  /\ Successes("identity") # {}
  /\ Succeeded

\* The responses evaluator c of phase p has sent.
Responses(p, c) == {i \in 1 .. Len(log[p]) : log[p][i].Evaluator = c}

\* C11 as claimed: when the channel of a phase is closed, every one of its
\* evaluators has sent exactly one response.
C11_OneResponsePerEvaluator ==
  \A p \in Phases : closed[p] =>
    /\ Len(log[p]) = nConf[p]
    /\ \A c \in Configs(p) : Cardinality(Responses(p, c)) = 1

\* C11 amended: when the channel of a phase is closed, every evaluator of the
\* phase has ended, each one whose Call was invoked has sent exactly one
\* response and each skipped one none.
C11_OneResponsePerInvokedEvaluator ==
  \A p \in Phases : closed[p] =>
    /\ Len(log[p]) <= nConf[p]
    /\ \A c \in Configs(p) :
         /\ task[p][c] \in {"skipped", "done"}
         /\ Cardinality(Responses(p, c)) = IF task[p][c] = "skipped" THEN 0 ELSE 1

\* C11 happens: a closed channel of two evaluators, one skipped and one that
\* answered.
C11_Witness ==
  \E p \in Phases :
    /\ closed[p]
    /\ nConf[p] = MaxConfigs
    /\ \E c \in Configs(p) : task[p][c] = "skipped"
    /\ \E c \in Configs(p) : task[p][c] = "done"

\* A task of phase p that has ended after a success / a failure.
EndedWith(p, ok) ==
  {c \in Configs(p) : task[p][c] = "done"
                        /\ \E i \in Responses(p, c) : Success(log[p][i]) = ok}

\* C12: the scope of the identity phase is cancelled only after a task's Call
\* succeeded and that task ran its callback, the scope of the authorization
\* phase only after a task's Call failed and that task ran its callback, the
\* scope of the metadata phase never; so a metadata task is skipped only under
\* a cancelled parent scope.
C12_StrategyCancelTriggers ==
  /\ cancelled["identity"] => EndedWith("identity", TRUE) # {}
  /\ cancelled["authorization"] => EndedWith("authorization", FALSE) # {}
  /\ ~cancelled["metadata"]
  /\ \A c \in Configs("metadata") : task["metadata"][c] = "skipped" => parentCancelled

\* C12 happens: identity cancelled by a success, authorization by a failure,
\* the metadata evaluator invoked in between, the parent scope never cancelled.
C12_Witness ==
  /\ ~parentCancelled
  /\ cancelled["identity"] /\ cancelled["authorization"]
  /\ nConf["metadata"] > 0
  /\ \A c \in Configs("metadata") : task["metadata"][c] = "done"
  /\ Failures("metadata") # {}

\* A task whose Call is in progress finds room in the channel when it returns.
NoSendBlocks ==
  \A p \in Phases : \A c \in Configs(p) :
    task[p][c] = "calling" => Len(chan[p]) < nConf[p]

\* Every task that was started has ended.
AllTasksEnded ==
  \A p \in Phases : \A c \in Configs(p) : task[p][c] \in {"idle", "skipped", "done"}

\* C13: no channel holds more responses than its number of evaluators and no
\* task finds the channel full; with every Call returning, every task ends,
\* the channel of every started phase is closed and Evaluate returns.
C13_NoBlockingAndTermination ==
  /\ [](NoSendBlocks /\ \A p \in Phases : Len(chan[p]) <= nConf[p])
  /\ <>(pc = "done")
  /\ <>[]AllTasksEnded
  /\ \A p \in Phases : Started(p) ~> closed[p]

\* C13 happens: Evaluate returned on the first authorization failure and the
\* sibling sent its response afterwards, into a channel nobody reads.
C13_Witness ==
  /\ pc = "done"
  /\ result # NoError
  /\ closed["authorization"]
  /\ chan["authorization"] # <<>>
  /\ AllTasksEnded

\* What a task has sent at each of its positions: nothing before its Call
\* returned or when it skipped, one response afterwards, a success or a
\* failure as the Call returned.
SentMatchesPosition ==
  \A p \in Phases : \A c \in Configs(p) :
    /\ task[p][c] \in {"idle", "spawned", "skipped", "calling"} => Responses(p, c) = {}
    /\ task[p][c] \in {"sentSuccess", "sentFailure", "done"} =>
         Cardinality(Responses(p, c)) = 1
    /\ task[p][c] = "sentSuccess" => \A i \in Responses(p, c) : Success(log[p][i])
    /\ task[p][c] = "sentFailure" => \A i \in Responses(p, c) : ~Success(log[p][i])

\* A task that checks a done context skips, and a task whose Call was invoked
\* goes on to send, whatever happens to the scope meanwhile.
SkipOrSend ==
  \A p \in Phases : \A c \in Configs(p) :
    /\ (task[p][c] = "spawned" /\ CheckContext(p)) =>
         task'[p][c] \in {"spawned", "skipped"}
    /\ task[p][c] = "skipped" => task'[p][c] = "skipped"
    /\ task[p][c] = "calling" =>
         task'[p][c] \in {"calling", "sentSuccess", "sentFailure"}

\* C16: a task that finds its scope cancelled before invoking Call never
\* invokes it and sends nothing; a task whose Call was invoked sends exactly
\* one response with the Call's result, also when the scope is cancelled
\* during the Call.
C16_SkipAndInFlight == []SentMatchesPosition /\ [][SkipOrSend]_vars

\* C16 happens: in one phase a task skipped and a task whose Call was under
\* way when the scope was cancelled sent the context error.
C16_Witness ==
  \E p \in Phases :
    /\ \E c \in Configs(p) : task[p][c] = "skipped"
    /\ \E c \in Configs(p) :
         /\ task[p][c] = "done"
         /\ \E i \in Responses(p, c) : log[p][i].Error.kind = "cancelled"

\* C17: whenever Evaluate returns an error of the authorization phase, the
\* authorization map is empty.
C17_AuthorizationMapOnlyIfAllSucceed ==
  (pc = "done" /\ returned["authorization"] \notin {Pending, NoError}) =>
    Authorization = EmptyMap

\* The order of the phases alone: a metadata Call is invoked only after the
\* identity phase returned nil, an authorization Call only after every
\* metadata task ended and the metadata loop drained the closed channel, and
\* Evaluate returns nil only after the three phases returned nil.
PhaseOrderOfCalls ==
  /\ \A c \in Configs("metadata") :
       Invoked("metadata", c) => returned["identity"] = NoError
  /\ \A c \in Configs("authorization") :
       Invoked("authorization", c) =>
         /\ returned["metadata"] = NoError
         /\ closed["metadata"] /\ chan["metadata"] = <<>>
         /\ \A m \in Configs("metadata") : task["metadata"][m] \in {"skipped", "done"}
  /\ Succeeded => \A p \in Phases : returned[p] = NoError

\* C18: no metadata Call starts before the identity phase has stored a
\* resolved identity and returned success; no authorization Call starts before
\* every metadata task has ended and the metadata loop has drained the closed
\* channel; Evaluate returns nil only through the three phases in order.
C18_PhaseOrdering ==
  /\ PhaseOrderOfCalls
  /\ \A c \in Configs("metadata") : Invoked("metadata", c) => Identity # EmptyMap

\* C19: as long as the parent scope is not cancelled, the error the
\* authorization phase returns is an evaluator's own failure, never the
\* context error of a sibling.
C19_CancellationNeverDecidesAuthorization ==
  (~parentCancelled /\ returned["authorization"] \notin {Pending, NoError}) =>
    returned["authorization"].kind = "failure"

\* C19 happens: an authorization evaluator failed, its sibling's Call was under
\* way, found the scope cancelled and sent the context error; the phase
\* returned the evaluator's own failure.
C19_Witness ==
  /\ ~parentCancelled
  /\ Len(log["authorization"]) = MaxConfigs
  /\ log["authorization"][1].Error.kind = "failure"
  /\ log["authorization"][MaxConfigs].Error.kind = "cancelled"
  /\ result = log["authorization"][1].Error

\* A task is skipped only when the parent scope or the scope of its own phase
\* is cancelled.
SkippedByOwnScope ==
  \A p \in Phases : \A c \in Configs(p) :
    task[p][c] = "skipped" => (parentCancelled \/ cancelled[p])

\* A step that cancels the scope of a phase leaves the parent scope and the
\* scopes of the other phases as they are, and no step of a task cancels the
\* parent scope.
CancelStaysInPhase ==
  /\ \A p \in Phases :
       (~cancelled[p] /\ cancelled'[p]) =>
         /\ parentCancelled' = parentCancelled
         /\ \A q \in Phases \ {p} : cancelled'[q] = cancelled[q]
  /\ task' # task => parentCancelled' = parentCancelled

\* C20: the cancel a phase's runner issues reaches only that phase's scope:
\* it cancels neither the parent scope nor the scope of another phase, and no
\* task of another phase is skipped because of it.
C20_PerPhaseScopeIsolation == []SkippedByOwnScope /\ [][CancelStaysInPhase]_vars

\* C20 happens: the identity scope was cancelled after the first success, the
\* parent scope was not, and the metadata and authorization evaluators were
\* all invoked.
C20_Witness ==
  /\ cancelled["identity"]
  /\ ~parentCancelled
  /\ nConf["metadata"] > 0 /\ nConf["authorization"] > 0
  /\ \A c \in Configs("metadata") : task["metadata"][c] = "done"
  /\ \A c \in Configs("authorization") : task["authorization"][c] = "done"

\* The part of a string before its first "=" and the part after it.
BeforeFirstEquals(s) ==
  LET i == CHOOSE j \in 1 .. Len(s) : s[j] = "=" /\ \A h \in 1 .. (j - 1) : s[h] # "="
  IN SubSeq(s, 1, i - 1)

AfterFirstEquals(s) ==
  LET i == CHOOSE j \in 1 .. Len(s) : s[j] = "=" /\ \A h \in 1 .. (j - 1) : s[h] # "="
  IN SubSeq(s, i + 1, Len(s))

\* The trimmed parts of a cookie header that have an "=" and the key keyName.
PartsWithKey(req) ==
  LET parts == Split(req.header, ";") IN
    {i \in 1 .. Len(parts) :
       /\ \E j \in 1 .. Len(TrimSpace(parts[i])) : TrimSpace(parts[i])[j] = "="
       /\ BeforeFirstEquals(TrimSpace(parts[i])) = req.keyName}

\* The extraction as claimed: the whole value, after the first "=", of the
\* first part with the key; credential-not-found otherwise.
ClaimedCookie(req) ==
  IF ~req.present \/ PartsWithKey(req) = {} THEN notFoundErr
  ELSE LET parts == Split(req.header, ";") IN
         Credential(AfterFirstEquals(TrimSpace(parts[First(PartsWithKey(req))])))

\* C14: with in=cookie the locator returns the whole value (split at the first
\* "=" only) of the first part whose key is the key selector, and returns
\* credential-not-found, never crashing, when the header is absent, when no
\* part has the key, or when a part has no "=".
C14_CookieExtraction ==
  cookieRet # NotCalled => cookieRet = ClaimedCookie(cookieReq)

\* A rule holds: its operator is satisfied by the node of its selector.
RuleHolds(rule) == EvaluateRule(rule) = Authorized

\* The rules of the list that do not hold.
RulesNotHolding == {i \in 1 .. Len(matchRules) : ~RuleHolds(matchRules[i])}

\* C15: Call returns (true, nil) if and only if every rule holds; when some
\* rule does not hold it returns (false, "Unauthorized") if the first such
\* rule, the last one evaluated, is not a matches rule with a value that does
\* not compile, and (false, parse error) if it is.
C15_MatcherIsConjunction ==
  matchRet # NotCalled =>
    /\ matchRet = Authorized <=> RulesNotHolding = {}
    /\ RulesNotHolding # {} =>
         LET rule == matchRules[First(RulesNotHolding)] IN
           matchRet = IF rule.Operator = "matches" /\ ~RegexCompiles(rule.Value)
                        THEN RegexInvalid ELSE Unauthorized

\* C15 happens: a rule that holds followed by one that does not, denied; the
\* list is as long as the bound allows.
C15_Witness ==
  /\ matchRet = Unauthorized
  /\ Len(matchRules) = MaxRules
  /\ RuleHolds(matchRules[1])
  /\ matchRules[MaxRules].Operator = "incl"

\* The Call of an authorization evaluator has started and Evaluate has not
\* returned.
AuthorizationUnderWay ==
  /\ pc = "authorization"
  /\ \E c \in Configs("authorization") : Invoked("authorization", c)

\* While the authorization is under way no step changes the identity map, the
\* metadata map or the data they give the evaluators, and that data names one
\* identity only.
AuthorizationDataStable ==
  AuthorizationUnderWay =>
    /\ Identity' = Identity
    /\ Metadata' = Metadata
    /\ GetDataForAuthorization' = GetDataForAuthorization
    /\ Cardinality(GetDataForAuthorization) = 1

\* C21: from the start of the first authorization Call until Evaluate
\* returns, the identity and metadata maps are not modified, so every
\* authorization evaluator obtains the same identity object and the same
\* metadata entries, also while identity tasks are still in flight.
C21_StableAuthorizationContext == [][AuthorizationDataStable]_vars

\* C21 happens: an authorization Call is under way while the Call of an
\* identity evaluator, left running after the first success, is too.
C21_Witness ==
  /\ AuthorizationUnderWay
  /\ \E c \in Configs("identity") : task["identity"][c] = "calling"
  /\ \E c \in Configs("authorization") : task["authorization"][c] = "calling"
  /\ \E c \in DOMAIN Identity : Identity[c] # "null"

====
